---- MODULE Spec2Model ----
(***************************************************************************)
(* Model of the geoprocessing script (gp.py) and of its logger factory     *)
(* (modules/logging.py).                                                   *)
(*                                                                         *)
(* The geometry library, the logging library and the file system are       *)
(* modelled by what the script observes of them: a geometry carries the    *)
(* identity of the source polygon it derives from, its CRS and the         *)
(* operations applied to it; a logger carries its handler list and level;  *)
(* files are functions from paths to contents.                             *)
(***************************************************************************)
EXTENDS Integers, Sequences, FiniteSets, TLC

(* ------------------------------ bounds -------------------------------- *)
MaxRecords == 2
MaxRuns == 2
MaxClock == 2
TicksPerSecond == 2
MaxCalls == 2
MaxMsgs == 2

(* ------------------------- program constants -------------------------- *)
DEBUG == 10
INFO == 20
ERROR == 40
BufferRadius == 50000
SquareMetresPerKm2 == 1000000

DefaultName == "geoprocessing"
DefaultLogDir == "logs"
OutputDir == "output"
TargetName == "Malaysia"
MetricCRS == "EPSG:3857"
EqualAreaCRS == "EPSG:6933"
MalaysiaPath == "output/malaysia.geojson"
BufferPath == "output/malaysia_buffer.geojson"

(* --------------------------- input domains ---------------------------- *)
LoggerNames == {"geoprocessing", "geoprocessing.io"}
LogDirs == {"logs"}
SetupLevels == {DEBUG, ERROR}
MessageLevels == {INFO, ERROR}
RecordNames == {"Malaysia", "Brunei"}
SourceCRSs == {"EPSG:4326", "EPSG:4269"}
\* polygon areas in square metres, as measured in an equal-area CRS
AreaValues == {1000, 6000}

VARIABLES
    pc,                   \* position of the script
    run,                  \* number of the current process run
    now,                  \* wall clock, in ticks of 1/TicksPerSecond s
    shapefile,            \* data/my.shp on disk
    dirs,                 \* directories that exist
    outFiles,             \* GeoJSON files on disk: path -> collection
    logFiles,             \* log files on disk: path -> lines
    loggers,              \* the process's logger registry: name -> logger
    console,              \* lines the console handlers wrote (stderr)
    stdout,               \* lines print() wrote
    gdf, malaysia, malaysia_simplified, malaysia_m, malaysia_buffer_gdf,
    centroid, area_km2,   \* the script's variables (<<>> while unassigned)
    plotted,              \* layers drawn on the figure
    trace,                \* steps completed in the current run, in order
    failedAt,             \* step at which an uncaught error ended the run
    calls,                \* history of setup_logger calls
    sent                  \* history of messages logged through LogMessage

vars == <<pc, run, now, shapefile, dirs, outFiles, logFiles, loggers, console,
          stdout, gdf, malaysia, malaysia_simplified, malaysia_m,
          malaysia_buffer_gdf, centroid, area_km2, plotted, trace, failedAt,
          calls, sent>>

scriptVars == <<gdf, malaysia, malaysia_simplified, malaysia_m,
                malaysia_buffer_gdf, centroid, area_km2, plotted>>

(* ============================ logging.py ============================== *)

\* datetime.now().strftime("%Y%m%d_%H%M%S"): the clock cut to whole seconds
Timestamp(t) == t \div TicksPerSecond

LogFileNameNoTimestamp(log_dir, name, t) ==
    [dir |-> log_dir, name |-> name, ts |-> 0]

\* os.path.join(log_dir, f"{name}_{timestamp}.log")
LogFileName(log_dir, name, t) ==
    [dir |-> log_dir, name |-> name, ts |-> Timestamp(t)]

\* logging.StreamHandler() with setLevel(level) and the console format
ConsoleHandler(level) == [kind |-> "console", file |-> <<>>, level |-> level]

\* logging.FileHandler(log_file) with setLevel(level) and the file format
FileHandler(log_file, level) ==
    [kind |-> "file", file |-> <<log_file>>, level |-> level]

\* the dotted-name hierarchy of the logging library
ParentOf(name) == IF name = "geoprocessing.io" THEN "geoprocessing" ELSE "root"

\* the nearest ancestor that exists in the registry; otherwise the root
\* logger, to which this program never attaches a handler
Parent(lgs, name) ==
    IF ParentOf(name) \in DOMAIN lgs THEN ParentOf(name) ELSE "root"

OwnHandlers(lgs, name) ==
    IF name \in DOMAIN lgs THEN lgs[name].handlers ELSE <<>>

\* Logger.hasHandlers(): own handlers, or those of an ancestor (propagate)
RECURSIVE HasHandlers(_, _)
HasHandlers(lgs, name) ==
    IF name = "root" THEN FALSE
    ELSE \/ OwnHandlers(lgs, name) # <<>>
         \/ HasHandlers(lgs, Parent(lgs, name))

ClearedHandlersNoClear(lgs, name) == OwnHandlers(lgs, name)

\* if logger.hasHandlers(): logger.handlers.clear()
ClearedHandlers(lgs, name) ==
    IF HasHandlers(lgs, name) THEN <<>> ELSE OwnHandlers(lgs, name)

\* FileHandler opens the file in append mode: created when absent, kept
\* with its lines when present
OpenAppend(files, path) ==
    [p \in DOMAIN files \cup {path} |->
        IF p \in DOMAIN files THEN files[p] ELSE <<>>]

\* setup_logger(name, log_dir, level) at clock t, as a function of the
\* directories, the log files and the logger registry
SetupLogger(ds, files, lgs, name, log_dir, level, t) ==
    LET log_file == LogFileName(log_dir, name, t)
        handlers == ClearedHandlers(lgs, name)
                        \o <<ConsoleHandler(level), FileHandler(log_file, level)>>
        logger   == [handlers |-> handlers, level |-> level]
    IN  [dirs     |-> ds \cup {log_dir},
         logFiles |-> OpenAppend(files, log_file),
         loggers  |-> [n \in DOMAIN lgs \cup {name} |->
                          IF n = name THEN logger ELSE lgs[n]]]

LevelName(level) ==
    IF level = DEBUG THEN "DEBUG"
    ELSE IF level = INFO THEN "INFO"
    ELSE IF level = ERROR THEN "ERROR"
    ELSE "Level"

\* "[%(levelname)s] %(message)s"
ConsoleFormat(rec) == [levelname |-> LevelName(rec.level), message |-> rec.msg]

\* "%(asctime)s - %(levelname)s - %(message)s"
FileFormat(rec) ==
    [asctime |-> rec.created, levelname |-> LevelName(rec.level),
     message |-> rec.msg]

\* Handler.handle(record): dropped below the handler's level
HandlerEmit(io, h, rec) ==
    IF rec.level < h.level THEN io
    ELSE IF h.kind = "console"
         THEN [io EXCEPT !.console = Append(@, ConsoleFormat(rec))]
         ELSE [io EXCEPT !.logFiles[h.file[1]] = Append(@, FileFormat(rec))]

RECURSIVE EmitFrom(_, _, _, _)
EmitFrom(io, hs, rec, i) ==
    IF i > Len(hs) THEN io
    ELSE EmitFrom(HandlerEmit(io, hs[i], rec), hs, rec, i + 1)

\* Logger.callHandlers(record): the logger's handlers, then its ancestors'
RECURSIVE CallHandlers(_, _, _, _)
CallHandlers(io, lgs, name, rec) ==
    IF name = "root" THEN io
    ELSE CallHandlers(EmitFrom(io, lgs[name].handlers, rec, 1),
                      lgs, Parent(lgs, name), rec)

\* logger.log(level, msg) at clock t; setup_logger always sets the logger's
\* own level, so that is its effective level
LoggerLog(io, lgs, name, level, msg, t) ==
    IF level < lgs[name].level THEN io
    ELSE CallHandlers(io, lgs, name,
                      [level |-> level, msg |-> msg, created |-> t])

(* =============================== gp.py ================================ *)

None == <<>>
Some(x) == <<x>>
NoName == ""

Geometry(i, crs, m2) ==
    [shape |-> i, crs |-> crs, m2 |-> m2, simplified |-> FALSE,
     buffer |-> 0, kind |-> "polygon"]

\* gpd.read_file("data/my.shp"): one row per record, in file order
ReadFile(shp) ==
    [crs  |-> shp.crs,
     rows |-> [i \in 1..Len(shp.records) |->
                 [name |-> shp.records[i].name,
                  geom |-> Geometry(i, shp.crs, shp.records[i].m2)]]]

\* gdf['name'].unique()
UniqueNames(g) == {g.rows[i].name : i \in 1..Len(g.rows)}

\* gdf[gdf['name'] == name]: every row carrying the name, in order
Filter(g, name) ==
    [g EXCEPT !.rows = SelectSeq(g.rows, LAMBDA r : r.name = name)]

EmptyNever(g) == FALSE

\* DataFrame.empty
Empty(g) == g.rows = <<>>

\* GeoDataFrame.geometry: the geometry column as a GeoSeries
GeometryOf(g) ==
    [crs |-> g.crs, geoms |-> [i \in 1..Len(g.rows) |-> g.rows[i].geom]]

\* GeoSeries.simplify(tolerance, preserve_topology): CRS kept
SimplifySeries(s) ==
    [s EXCEPT !.geoms = [i \in 1..Len(s.geoms) |->
                            [s.geoms[i] EXCEPT !.simplified = TRUE]]]

\* df['geometry'] = series: the rows keep their attributes
SetGeometry(g, s) ==
    [g EXCEPT !.rows = [i \in 1..Len(g.rows) |->
                           [g.rows[i] EXCEPT !.geom = s.geoms[i]]]]

\* GeoDataFrame.to_crs(crs): a new frame, every geometry reprojected
ToCrs(g, crs) ==
    [crs  |-> crs,
     rows |-> [i \in 1..Len(g.rows) |->
                 [g.rows[i] EXCEPT !.geom.crs = crs]]]

\* GeoSeries.to_crs(crs)
SeriesToCrs(s, crs) ==
    [crs   |-> crs,
     geoms |-> [i \in 1..Len(s.geoms) |-> [s.geoms[i] EXCEPT !.crs = crs]]]

\* GeoDataFrame.buffer(distance): a GeoSeries in the frame's CRS
BufferSeries(g, distance) ==
    [crs   |-> g.crs,
     geoms |-> [i \in 1..Len(g.rows) |->
                  [g.rows[i].geom EXCEPT !.buffer = distance]]]

\* gpd.GeoDataFrame(geometry=series, crs=crs): geometry is the only column
FrameOfSeries(s, crs) ==
    [crs  |-> crs,
     rows |-> [i \in 1..Len(s.geoms) |-> [name |-> NoName, geom |-> s.geoms[i]]]]

\* GeoSeries.centroid: one point per geometry
CentroidSeries(s) ==
    [s EXCEPT !.geoms = [i \in 1..Len(s.geoms) |->
                            [s.geoms[i] EXCEPT !.kind = "point"]]]

\* GeoSeries.area: the planar area of each geometry in the units of its
\* CRS: square metres in the equal-area CRS, inflated in Web Mercator
\* (doubled here), square degrees (nil at this scale) otherwise
AreaSeries(s) ==
    [i \in 1..Len(s.geoms) |->
        IF s.crs = EqualAreaCRS THEN s.geoms[i].m2
        ELSE IF s.crs = MetricCRS THEN 2 * s.geoms[i].m2
        ELSE 0]

FormatF2Truncate(num, den) == num \div (den \div 100)

\* f"{x:.2f}" of x = num/den: the number of hundredths, ties to even
FormatF2(num, den) ==
    LET unit == den \div 100
        q    == num \div unit
        r    == num % unit
    IN  IF 2 * r > unit THEN q + 1
        ELSE IF 2 * r < unit THEN q
        ELSE IF q % 2 = 0 THEN q ELSE q + 1

(* ----------------------------- the script ----------------------------- *)

StepOrderAreaFirst ==
    <<"mkdir", "load", "filter", "simplify", "buffer", "area", "centroid",
      "save_malaysia", "save_buffer", "plot">>

StepOrderBufferFileFirst ==
    <<"mkdir", "load", "filter", "simplify", "buffer", "centroid", "area",
      "save_buffer", "save_malaysia", "plot">>

\* the sections of the script, top to bottom
StepOrder ==
    <<"mkdir", "load", "filter", "simplify", "buffer", "centroid", "area",
      "save_malaysia", "save_buffer", "plot">>

StepIndex(step) == CHOOSE i \in 1..Len(StepOrder) : StepOrder[i] = step

\* where control goes when a section completes
NextStep(step) ==
    IF StepIndex(step) = Len(StepOrder) THEN "done"
    ELSE StepOrder[StepIndex(step) + 1]

Info(text, n) == [level |-> INFO, msg |-> [text |-> text, n |-> n]]
Error(text, n) == [level |-> ERROR, msg |-> [text |-> text, n |-> n]]

\* a run of log.info / log.error calls on the script's logger
RECURSIVE LogSeq(_, _, _, _, _)
LogSeq(io, lgs, recs, t, i) ==
    IF i > Len(recs) THEN io
    ELSE LogSeq(LoggerLog(io, lgs, DefaultName, recs[i].level, recs[i].msg, t),
                lgs, recs, t, i + 1)

Logged(recs) ==
    LET io == LogSeq([console |-> console, logFiles |-> logFiles],
                     loggers, recs, now, 1)
    IN  /\ console' = io.console
        /\ logFiles' = io.logFiles

\* the section ran to its end
Completed(step, recs) ==
    /\ Logged(recs)
    /\ pc' = NextStep(step)
    /\ trace' = Append(trace, step)
    /\ UNCHANGED failedAt

\* a library call raised: nothing catches it, the process exits with the
\* lines logged so far
Failed(step, recs) ==
    /\ Logged(recs)
    /\ pc' = "crashed"
    /\ failedAt' = Some(step)
    /\ UNCHANGED trace

\* what the history keeps of a setup_logger call made now
CallRecord(name, log_dir, level) ==
    [name |-> name, dir |-> log_dir, level |-> level,
     sec |-> now \div TicksPerSecond]

\* line 8: log = setup_logger()
SetupLogging ==
    /\ pc = "start"
    /\ \E ok \in BOOLEAN :
        IF ok
        THEN LET r == SetupLogger(dirs, logFiles, loggers,
                                  DefaultName, DefaultLogDir, DEBUG, now)
             IN  /\ dirs' = r.dirs
                 /\ logFiles' = r.logFiles
                 /\ loggers' = r.loggers
                 /\ calls' = Append(calls, CallRecord(DefaultName, DefaultLogDir, DEBUG))
                 /\ pc' = StepOrder[1]
                 /\ UNCHANGED failedAt
        ELSE /\ pc' = "crashed"
             /\ failedAt' = Some("setup")
             /\ UNCHANGED <<dirs, logFiles, loggers, calls>>
    /\ UNCHANGED <<run, now, shapefile, outFiles, console, stdout, scriptVars,
                   trace, sent>>

\* lines 10-12
EnsureOutputDir ==
    /\ pc = "mkdir"
    /\ \E ok \in BOOLEAN :
        IF ok
        THEN /\ dirs' = dirs \cup {OutputDir}
             /\ Completed("mkdir",
                    <<Info("Output directory 'output' created or already exists.", 0)>>)
        ELSE /\ UNCHANGED dirs
             /\ Failed("mkdir", <<>>)
    /\ UNCHANGED <<run, now, shapefile, outFiles, loggers, stdout, scriptVars,
                   calls, sent>>

\* lines 14-22
LoadShapefile ==
    /\ pc = "load"
    /\ \E ok \in BOOLEAN :
        IF ok
        THEN LET g == ReadFile(shapefile)
                 n == Cardinality(UniqueNames(g))
             IN  /\ gdf' = Some(g)
                 /\ stdout' = Append(stdout,
                        [text |-> "Available countries:", geoms |-> <<>>, n |-> n])
                 /\ Completed("load",
                        <<Info("Loading shapefile from 'data/my.shp'...", 0),
                          Info("Shapefile loaded. Total records:", Len(g.rows)),
                          Info("Available countries in shapefile:", n)>>)
        ELSE /\ UNCHANGED <<gdf, stdout>>
             /\ Failed("load", <<Info("Loading shapefile from 'data/my.shp'...", 0)>>)
    /\ UNCHANGED <<run, now, shapefile, dirs, outFiles, loggers, malaysia,
                   malaysia_simplified, malaysia_m, malaysia_buffer_gdf,
                   centroid, area_km2, plotted, calls, sent>>

\* lines 24-31
FilterMalaysia ==
    /\ pc = "filter"
    /\ LET m == Filter(gdf[1], TargetName)
       IN  /\ malaysia' = Some(m)
           /\ IF Empty(m)
              THEN /\ Logged(<<Info("Filtering for Malaysia...", 0),
                               Error("Malaysia not found in shapefile!", 0)>>)
                   /\ pc' = "aborted"
                   /\ failedAt' = Some("filter")
                   /\ UNCHANGED trace
              ELSE Completed("filter",
                       <<Info("Filtering for Malaysia...", 0),
                         Info("Malaysia geometry extracted.", 0)>>)
    /\ UNCHANGED <<run, now, shapefile, dirs, outFiles, loggers, stdout, gdf,
                   malaysia_simplified, malaysia_m, malaysia_buffer_gdf,
                   centroid, area_km2, plotted, calls, sent>>

SimplifiedInPlace(m) ==
    LET s == SetGeometry(m, SimplifySeries(GeometryOf(m)))
    IN  [malaysia |-> s, malaysia_simplified |-> s]

\* lines 35-36: the simplified geometry is assigned to a copy
SimplifiedCopy(m) ==
    [malaysia |-> m,
     malaysia_simplified |-> SetGeometry(m, SimplifySeries(GeometryOf(m)))]

\* lines 33-37
Simplify ==
    /\ pc = "simplify"
    /\ \E ok \in BOOLEAN :
        IF ok
        THEN LET r == SimplifiedCopy(malaysia[1])
             IN  /\ malaysia' = Some(r.malaysia)
                 /\ malaysia_simplified' = Some(r.malaysia_simplified)
                 /\ Completed("simplify",
                        <<Info("Simplifying Malaysia geometry...", 0),
                          Info("Geometry simplification complete.", 0)>>)
        ELSE /\ UNCHANGED <<malaysia, malaysia_simplified>>
             /\ Failed("simplify", <<Info("Simplifying Malaysia geometry...", 0)>>)
    /\ UNCHANGED <<run, now, shapefile, dirs, outFiles, loggers, stdout, gdf,
                   malaysia_m, malaysia_buffer_gdf, centroid, area_km2,
                   plotted, calls, sent>>

BufferSourceSimplified(m, ms) == ms

\* line 41: the frame that is reprojected and buffered
BufferSource(m, ms) == m

\* lines 39-44
CreateBuffer ==
    /\ pc = "buffer"
    /\ \E ok \in BOOLEAN :
        IF ok
        THEN LET src == BufferSource(malaysia[1], malaysia_simplified[1])
                 mm  == ToCrs(src, MetricCRS)
                 buf == BufferSeries(mm, BufferRadius)
             IN  /\ malaysia_m' = Some(mm)
                 /\ malaysia_buffer_gdf' =
                        Some(ToCrs(FrameOfSeries(buf, mm.crs), malaysia[1].crs))
                 /\ Completed("buffer",
                        <<Info("Creating 50 km buffer...", 0),
                          Info("Buffer created and reprojected to original CRS.", 0)>>)
        ELSE /\ UNCHANGED <<malaysia_m, malaysia_buffer_gdf>>
             /\ Failed("buffer", <<Info("Creating 50 km buffer...", 0)>>)
    /\ UNCHANGED <<run, now, shapefile, dirs, outFiles, loggers, stdout, gdf,
                   malaysia, malaysia_simplified, centroid, area_km2, plotted,
                   calls, sent>>

\* lines 46-51; iloc[0] raises IndexError on an empty series
CalcCentroid ==
    /\ pc = "centroid"
    /\ \E ok \in BOOLEAN :
        LET centroid_projected == CentroidSeries(GeometryOf(malaysia_m[1]))
            back == SeriesToCrs(centroid_projected, malaysia[1].crs)
        IN  IF ok /\ back.geoms # <<>>
            THEN /\ centroid' = Some(back.geoms[1])
                 /\ stdout' = Append(stdout,
                        [text |-> "Centroid coordinates (lat/lon):",
                         geoms |-> <<back.geoms[1]>>, n |-> 0])
                 /\ Completed("centroid",
                        <<Info("Calculating centroid...", 0),
                          Info("Centroid coordinates (lat/lon):", back.geoms[1].shape)>>)
            ELSE /\ UNCHANGED <<centroid, stdout>>
                 /\ Failed("centroid", <<Info("Calculating centroid...", 0)>>)
    /\ UNCHANGED <<run, now, shapefile, dirs, outFiles, loggers, gdf, malaysia,
                   malaysia_simplified, malaysia_m, malaysia_buffer_gdf,
                   area_km2, plotted, calls, sent>>

\* lines 53-58
CalcArea ==
    /\ pc = "area"
    /\ \E ok \in BOOLEAN :
        LET malaysia_equal_area == ToCrs(malaysia[1], EqualAreaCRS)
            areas == AreaSeries(GeometryOf(malaysia_equal_area))
        IN  IF ok /\ areas # <<>>
            THEN LET a == [num |-> areas[1], den |-> SquareMetresPerKm2]
                     shown == FormatF2(a.num, a.den)
                 IN  /\ area_km2' = Some(a)
                     /\ stdout' = Append(stdout,
                            [text |-> "Malaysia area:", geoms |-> <<>>, n |-> shown])
                     /\ Completed("area",
                            <<Info("Calculating area in km2 using equal-area projection (EPSG:6933)...", 0),
                              Info("Calculated area:", shown)>>)
            ELSE /\ UNCHANGED <<area_km2, stdout>>
                 /\ Failed("area",
                        <<Info("Calculating area in km2 using equal-area projection (EPSG:6933)...", 0)>>)
    /\ UNCHANGED <<run, now, shapefile, dirs, outFiles, loggers, gdf, malaysia,
                   malaysia_simplified, malaysia_m, malaysia_buffer_gdf,
                   centroid, plotted, calls, sent>>

\* GeoDataFrame.to_file(path, driver='GeoJSON'): the file is replaced
WriteFile(files, path, g) ==
    [p \in DOMAIN files \cup {path} |-> IF p = path THEN g ELSE files[p]]

\* lines 61-63
SaveMalaysia ==
    /\ pc = "save_malaysia"
    /\ \E ok \in BOOLEAN :
        IF ok
        THEN /\ outFiles' = WriteFile(outFiles, MalaysiaPath, malaysia[1])
             /\ Completed("save_malaysia",
                    <<Info("Saving Malaysia GeoJSON...", 0),
                      Info("Saved to output/malaysia.geojson", 0)>>)
        ELSE /\ UNCHANGED outFiles
             /\ Failed("save_malaysia", <<Info("Saving Malaysia GeoJSON...", 0)>>)
    /\ UNCHANGED <<run, now, shapefile, dirs, loggers, stdout, scriptVars,
                   calls, sent>>

\* lines 65-67
SaveBuffer ==
    /\ pc = "save_buffer"
    /\ \E ok \in BOOLEAN :
        IF ok
        THEN /\ outFiles' = WriteFile(outFiles, BufferPath, malaysia_buffer_gdf[1])
             /\ Completed("save_buffer",
                    <<Info("Saving Malaysia 50 km buffer GeoJSON...", 0),
                      Info("Saved to output/malaysia_buffer.geojson", 0)>>)
        ELSE /\ UNCHANGED outFiles
             /\ Failed("save_buffer",
                    <<Info("Saving Malaysia 50 km buffer GeoJSON...", 0)>>)
    /\ UNCHANGED <<run, now, shapefile, dirs, loggers, stdout, scriptVars,
                   calls, sent>>

\* lines 69-81
Plot ==
    /\ pc = "plot"
    /\ \E ok \in BOOLEAN :
        IF ok
        THEN /\ plotted' =
                  <<[label |-> "Malaysia", geoms |-> GeometryOf(malaysia[1]).geoms],
                    [label |-> "50 km Buffer",
                     geoms |-> GeometryOf(malaysia_buffer_gdf[1]).geoms],
                    [label |-> "Centroid",
                     geoms |-> <<[centroid[1] EXCEPT !.crs = malaysia[1].crs]>>]>>
             /\ Completed("plot",
                    <<Info("Plotting geometries...", 0),
                      Info("Plot displayed successfully.", 0)>>)
        ELSE /\ UNCHANGED plotted
             /\ Failed("plot", <<Info("Plotting geometries...", 0)>>)
    /\ UNCHANGED <<run, now, shapefile, dirs, outFiles, loggers, stdout, gdf,
                   malaysia, malaysia_simplified, malaysia_m,
                   malaysia_buffer_gdf, centroid, area_km2, calls, sent>>

\* the script is started again after a run that reached its end or the
\* not-found error: a new process, the same disk
Restart ==
    /\ pc \in {"done", "aborted"}
    /\ run < MaxRuns
    /\ run' = run + 1
    /\ pc' = "start"
    /\ loggers' = << >>
    /\ console' = <<>>
    /\ stdout' = <<>>
    /\ gdf' = None
    /\ malaysia' = None
    /\ malaysia_simplified' = None
    /\ malaysia_m' = None
    /\ malaysia_buffer_gdf' = None
    /\ centroid' = None
    /\ area_km2' = None
    /\ plotted' = <<>>
    /\ trace' = <<>>
    /\ failedAt' = None
    /\ UNCHANGED <<now, shapefile, dirs, outFiles, logFiles, calls, sent>>

\* the wall clock advances between the calls of setup_logger; within one
\* run of the script every line carries the time of its start
Tick ==
    /\ pc = "start"
    /\ now < MaxClock
    /\ now' = now + 1
    /\ UNCHANGED <<pc, run, shapefile, dirs, outFiles, logFiles, loggers,
                   console, stdout, scriptVars, trace, failedAt, calls, sent>>

Shapefiles ==
    {[crs |-> c, records |-> rs] :
        c \in SourceCRSs,
        rs \in UNION {[1..n -> [name : RecordNames, m2 : AreaValues]] :
                        n \in 0..MaxRecords}}

Init ==
    /\ pc = "start"
    /\ run = 1
    /\ now = 0
    /\ shapefile \in Shapefiles
    /\ dirs = {}
    /\ outFiles = << >>
    /\ logFiles = << >>
    /\ loggers = << >>
    /\ console = <<>>
    /\ stdout = <<>>
    /\ gdf = None
    /\ malaysia = None
    /\ malaysia_simplified = None
    /\ malaysia_m = None
    /\ malaysia_buffer_gdf = None
    /\ centroid = None
    /\ area_km2 = None
    /\ plotted = <<>>
    /\ trace = <<>>
    /\ failedAt = None
    /\ calls = <<>>
    /\ sent = <<>>

Next ==
    \/ SetupLogging
    \/ EnsureOutputDir
    \/ LoadShapefile
    \/ FilterMalaysia
    \/ Simplify
    \/ CreateBuffer
    \/ CalcCentroid
    \/ CalcArea
    \/ SaveMalaysia
    \/ SaveBuffer
    \/ Plot
    \/ Restart
    \/ Tick

Spec == Init /\ [][Next]_vars

(* ------------- the logger factory driven by arbitrary callers ---------- *)

\* setup_logger(name, log_dir, level), called by any code of the process
CallSetupLogger ==
    /\ pc = "start"
    /\ Len(calls) < MaxCalls
    /\ \E name \in LoggerNames, log_dir \in LogDirs, level \in SetupLevels :
        LET r == SetupLogger(dirs, logFiles, loggers, name, log_dir, level, now)
        IN  /\ dirs' = r.dirs
            /\ logFiles' = r.logFiles
            /\ loggers' = r.loggers
            /\ calls' = Append(calls, CallRecord(name, log_dir, level))
    /\ UNCHANGED <<pc, run, now, shapefile, outFiles, console, stdout,
                   scriptVars, trace, failedAt, sent>>

\* the latest setup_logger call made for a name
LastCall(name) ==
    calls[CHOOSE i \in 1..Len(calls) :
            /\ calls[i].name = name
            /\ \A j \in (i + 1)..Len(calls) : calls[j].name # name]

\* logger.debug / info / error on a logger that setup_logger returned
LogMessage ==
    /\ pc = "start"
    /\ Len(sent) < MaxMsgs
    /\ \E name \in DOMAIN loggers, level \in MessageLevels :
        LET msg == [text |-> "message", n |-> Len(sent) + 1]
            io  == LoggerLog([console |-> console, logFiles |-> logFiles],
                             loggers, name, level, msg, now)
        IN  /\ console' = io.console
            /\ logFiles' = io.logFiles
            /\ sent' = Append(sent,
                   [name |-> name, level |-> level, msg |-> msg,
                    ncalls |-> Len(calls), last |-> LastCall(name)])
    /\ UNCHANGED <<pc, run, now, shapefile, dirs, outFiles, loggers, stdout,
                   scriptVars, trace, failedAt, calls>>

LoggerInit ==
    /\ Init
    /\ shapefile = [crs |-> "EPSG:4326", records |-> <<>>]

LoggerNext ==
    \/ CallSetupLogger
    \/ LogMessage
    \/ Tick

LoggerSpec == LoggerInit /\ [][LoggerNext]_vars

(* ============================== claims ================================ *)

CallPath(c) == [dir |-> c.dir, name |-> c.name, ts |-> c.sec]

Occurrences(lines, msg) ==
    Cardinality({k \in 1..Len(lines) : lines[k].message = msg})

SingleName == Cardinality(DOMAIN loggers) = 1

\* C3: once setup_logger has been called one or more times, always with
\* the same name, the logger has exactly two handlers, the console handler
\* and the file handler of the latest call, and every message logged at or
\* above the configured level is on the console once and in the latest log
\* file once, and in no other file.
C3_TwoHandlersNoDuplicates ==
    SingleName =>
        /\ \A name \in DOMAIN loggers :
            LET c == LastCall(name)
            IN  loggers[name].handlers =
                    <<[kind |-> "console", file |-> <<>>, level |-> c.level],
                      [kind |-> "file", file |-> <<CallPath(c)>>,
                       level |-> c.level]>>
        /\ \A i \in 1..Len(sent) :
            LET m    == sent[i]
                want == IF m.level >= m.last.level THEN 1 ELSE 0
            IN  /\ Occurrences(console, m.msg) = want
                /\ \A f \in DOMAIN logFiles :
                     Occurrences(logFiles[f], m.msg) =
                        IF f = CallPath(m.last) THEN want ELSE 0

\* C3 witness: a message at or above the level, logged after the second
\* call with the one name, the two calls having opened different files
C3_Witness ==
    /\ SingleName
    /\ \E i \in 1..Len(sent) :
        /\ sent[i].ncalls >= 2
        /\ sent[i].level >= sent[i].last.level
    /\ Cardinality(DOMAIN logFiles) >= 2

\* C4 as stated: n calls of setup_logger leave n log files.
C4_OneFilePerCall == Cardinality(DOMAIN logFiles) = Len(calls)

\* C4 amended: every call creates log_dir and the file
\* {name}_{timestamp}.log in it; the log files are exactly those of the
\* calls made, two calls sharing a file exactly when they agree on log_dir,
\* name and clock second, so n calls leave at most n files.
C4_FilePerNameAndSecond ==
    /\ \A i \in 1..Len(calls) :
        /\ calls[i].dir \in dirs
        /\ CallPath(calls[i]) \in DOMAIN logFiles
    /\ DOMAIN logFiles = {CallPath(calls[i]) : i \in 1..Len(calls)}
    /\ Cardinality(DOMAIN logFiles) <= Len(calls)
    /\ Cardinality(DOMAIN logFiles) =
          Cardinality({<<calls[i].dir, calls[i].name, calls[i].sec>> :
                          i \in 1..Len(calls)})

\* C4 witness: two calls with the same name at different instants of the
\* same second, sharing one file that holds a line of the first logger
C4_Witness ==
    /\ Len(calls) = 2
    /\ calls[1].name = calls[2].name
    /\ calls[1].sec = calls[2].sec
    /\ now % TicksPerSecond # 0
    /\ Cardinality(DOMAIN logFiles) = 1
    /\ \E f \in DOMAIN logFiles : logFiles[f] # <<>>

(* ----------------------- claims about the script ---------------------- *)

Range(seq) == {seq[i] : i \in 1..Len(seq)}

IsPrefix(a, b) == Len(a) <= Len(b) /\ a = SubSeq(b, 1, Len(a))

HasTarget == \E i \in 1..Len(shapefile.records) :
                shapefile.records[i].name = TargetName

\* the rows of the file as loaded: source polygon, source CRS, untouched
OriginalRow(i) ==
    [name |-> shapefile.records[i].name,
     geom |-> [shape |-> i, crs |-> shapefile.crs,
               m2 |-> shapefile.records[i].m2, simplified |-> FALSE,
               buffer |-> 0, kind |-> "polygon"]]

OriginalFrame ==
    [crs |-> shapefile.crs,
     rows |-> [i \in 1..Len(shapefile.records) |-> OriginalRow(i)]]

OriginalSelection ==
    [crs |-> shapefile.crs,
     rows |-> SelectSeq(OriginalFrame.rows, LAMBDA r : r.name = "Malaysia")]

ErrorLines == {k \in 1..Len(console) : console[k].levelname = "ERROR"}
InfoLines == {k \in 1..Len(console) : console[k].levelname = "INFO"}

LaterSteps ==
    {"simplify", "buffer", "centroid", "area", "save_malaysia", "save_buffer",
     "plot"}

\* C1: with no record named "Malaysia" in the collection the filter step
\* ends the run with the not-found error, and simplify, buffer, centroid,
\* area, persist and plot never execute: their results stay unassigned and
\* no GeoJSON file is written.
C1_NotFoundStopsRun ==
    ~HasTarget =>
        /\ pc \notin LaterSteps \cup {"done"}
        /\ malaysia # None => pc = "aborted"
        /\ pc = "aborted" =>
              /\ failedAt = Some("filter")
              /\ console # <<>>
              /\ console[Len(console)].message.text =
                    "Malaysia not found in shapefile!"
        /\ Range(trace) \cap LaterSteps = {}
        /\ malaysia_simplified = None
        /\ malaysia_m = None
        /\ malaysia_buffer_gdf = None
        /\ centroid = None
        /\ area_km2 = None
        /\ plotted = <<>>
        /\ outFiles = << >>

\* C1 witness: a non-empty collection without the name, the run aborted
C1_Witness ==
    /\ ~HasTarget
    /\ shapefile.records # <<>>
    /\ pc = "aborted"

\* C2 as stated: when the collection holds a record named "Malaysia" the
\* filter returns exactly one record, however many records carry the name.
C2_FilterReturnsOneRecord ==
    (HasTarget /\ malaysia # None) => Len(malaysia[1].rows) = 1

SingleValidMalaysia ==
    /\ Len(shapefile.records) = 1
    /\ shapefile.records[1].name = "Malaysia"
    /\ shapefile.records[1].m2 > 0

CentroidLines == {k \in 1..Len(stdout) :
                    stdout[k].text = "Centroid coordinates (lat/lon):"}
AreaLines == {k \in 1..Len(stdout) : stdout[k].text = "Malaysia area:"}

TwoFiles == {"output/malaysia.geojson", "output/malaysia_buffer.geojson"}

C5_RunOutcome ==
    /\ DOMAIN outFiles = TwoFiles
    /\ "output" \in dirs
    /\ Cardinality(InfoLines) >= 8
    /\ ErrorLines = {}
    /\ Cardinality(CentroidLines) = 1
    /\ Cardinality(AreaLines) = 1
    /\ area_km2[1].num > 0

\* C5 as stated: the end-to-end run prints an area value > 0.
C5_PrintsPositiveArea ==
    (SingleValidMalaysia /\ pc = "done") =>
        /\ C5_RunOutcome
        /\ \A k \in AreaLines : stdout[k].n > 0

\* C5 amended: for a single valid record named "Malaysia" a run without a
\* failing library call ends with exactly the two GeoJSON files in output/,
\* at least 8 info lines, no error line, one centroid line and one area
\* line; the computed area is > 0 and the line shows it rounded to two
\* decimals, which is 0.00 below 0.005 km2; no run ever leaves any other
\* file in output/, so a second run ends with the same two files.
C5_EndToEnd ==
    /\ DOMAIN outFiles \subseteq TwoFiles
    /\ (SingleValidMalaysia /\ pc = "done") =>
          /\ C5_RunOutcome
          /\ \A k \in AreaLines :
                LET unit == 1000000 \div 100
                    off  == stdout[k].n * unit - area_km2[1].num
                IN  /\ stdout[k].n >= 0
                    /\ 2 * off <= unit
                    /\ 2 * off >= 0 - unit

\* C5 witness: the second run ended, the area line showing 0.00
C5_Witness ==
    /\ SingleValidMalaysia
    /\ pc = "done"
    /\ run = 2
    /\ \E k \in AreaLines : stdout[k].n = 0

ClaimedOrder ==
    <<"mkdir", "load", "filter", "simplify", "buffer", "centroid", "area",
      "save_malaysia", "save_buffer", "plot">>

ClaimedIndex(step) == CHOOSE i \in 1..Len(ClaimedOrder) : ClaimedOrder[i] = step

\* C6: in every run the steps execute at most once each, in the order
\* ensure output dir, load, filter, simplify, buffer, centroid, area, persist
\* selected feature, persist buffer, plot; a step starts only when all its
\* predecessors have completed, and a GeoJSON file is written only after
\* simplify, buffer, centroid and area have completed.
C6_StrictOrder ==
    /\ IsPrefix(trace, ClaimedOrder)
    /\ pc \in Range(ClaimedOrder) =>
          trace = SubSeq(ClaimedOrder, 1, ClaimedIndex(pc) - 1)
    /\ pc = "done" => trace = ClaimedOrder
    /\ (run = 1 /\ outFiles # << >>) =>
          {"simplify", "buffer", "centroid", "area"} \subseteq Range(trace)
    /\ "save_malaysia" \in Range(trace) =>
          /\ malaysia_simplified # None
          /\ malaysia_buffer_gdf # None
          /\ centroid # None
          /\ area_km2 # None

\* C6 witness: a run that executed all ten steps
C6_Witness ==
    /\ pc = "done"
    /\ Len(trace) = 10
    /\ DOMAIN outFiles = TwoFiles

\* C7: an error-level entry is logged only for "Malaysia not found", as the
\* last entry before the run ends; a run ended by any other failure has no
\* error-level entry, did not complete or repeat the failing step, and
\* leaves on disk what the completed steps wrote: a failure writing
\* malaysia_buffer.geojson leaves malaysia.geojson in output/.
C7_OnlyNotFoundIsLogged ==
    /\ \A k \in ErrorLines :
          console[k].message.text = "Malaysia not found in shapefile!"
    /\ ErrorLines # {} <=> pc = "aborted"
    /\ pc = "aborted" => ErrorLines = {Len(console)}
    /\ pc = "crashed" =>
          /\ ErrorLines = {}
          /\ failedAt # None
          /\ failedAt[1] \notin Range(trace)
          /\ failedAt[1] # "setup" =>
                trace = SubSeq(ClaimedOrder, 1, ClaimedIndex(failedAt[1]) - 1)
          /\ "mkdir" \in Range(trace) => "output" \in dirs
          /\ "save_malaysia" \in Range(trace) =>
                /\ "output/malaysia.geojson" \in DOMAIN outFiles
                /\ outFiles["output/malaysia.geojson"] = malaysia[1]
          /\ failedAt = Some("save_buffer") =>
                "output/malaysia.geojson" \in DOMAIN outFiles

\* C7 witness: the first run failed writing the buffer file
C7_Witness ==
    /\ pc = "crashed"
    /\ run = 1
    /\ failedAt = Some("save_buffer")
    /\ DOMAIN outFiles = {"output/malaysia.geojson"}

Derived(g, crs, radius, kind) ==
    [shape |-> g.shape, crs |-> crs, m2 |-> g.m2, simplified |-> FALSE,
     buffer |-> radius, kind |-> kind]

C9_NoMutation ==
    /\ gdf # None => gdf[1] = OriginalFrame
    /\ (malaysia # None /\ gdf # None) => malaysia[1] = OriginalSelection
    /\ "output/malaysia.geojson" \in DOMAIN outFiles =>
          outFiles["output/malaysia.geojson"] = OriginalSelection
    /\ "output/malaysia_buffer.geojson" \in DOMAIN outFiles =>
          LET b == outFiles["output/malaysia_buffer.geojson"]
          IN  /\ b.crs = shapefile.crs
              /\ Len(b.rows) = Len(OriginalSelection.rows)
              /\ \A i \in 1..Len(b.rows) :
                    /\ b.rows[i].geom.crs = shapefile.crs
                    /\ b.rows[i].geom.buffer = 50000
                    /\ b.rows[i].geom.shape =
                          OriginalSelection.rows[i].geom.shape
    /\ malaysia_m # None => malaysia_m[1].crs = "EPSG:3857"

\* C9 witness: both files written after all the deriving steps ran
C9_Witness ==
    /\ DOMAIN outFiles = TwoFiles
    /\ run = 1
    /\ malaysia_simplified # None
    /\ malaysia_simplified[1] # malaysia[1]
    /\ malaysia_m[1] # malaysia[1]

RECURSIVE SumArea(_, _)
SumArea(rows, i) ==
    IF i > Len(rows) THEN 0 ELSE rows[i].geom.m2 + SumArea(rows, i + 1)

\* C10 as stated: the centroid and the area reported describe the whole
\* selection that is persisted and buffered, not only its first record, and
\* the area is the equal-area area divided by 1,000,000 and non-negative.
C10_ReportsWholeSelection ==
    (centroid # None /\ area_km2 # None) =>
        /\ {centroid[1].shape} =
              {malaysia[1].rows[i].geom.shape : i \in 1..Len(malaysia[1].rows)}
        /\ area_km2[1].num = SumArea(malaysia[1].rows, 1)
        /\ area_km2[1].den = 1000000
        /\ area_km2[1].num >= 0

====
